---------------------------- MODULE Spec2Model ----------------------------
(***************************************************************************)
(* A model of badtouch's script runtime (src/src/runtime.rs): the value    *)
(* marshaller (byte_array, lua_bytes), the capability handlers registered  *)
(* in the Lua environment, the per-context error slot they report through  *)
(* and the session/request store behind http_mksession, http_request and   *)
(* http_send.                                                              *)
(*                                                                         *)
(* The handlers are translated from runtime.rs.  ctx::State (set_error,    *)
(* last_error, http_mksession, http_request, http_send) and                *)
(* http::RequestOptions are not part of the source at hand; they are       *)
(* modelled from the specification and named State_* / RequestOptions_*.   *)
(* The services behind the handlers (base64, digests, json, html, reqwest, *)
(* ldap3, mysql, the operating system) are the environment: every handler  *)
(* takes the service's answer as its last parameter.                       *)
(***************************************************************************)
EXTENDS Integers, Sequences, FiniteSets, TLC

VARIABLES
    errSlot,    \* State's error slot: NoError or the last message set
    sessions,   \* State's http sessions: the set of session tokens
    requests,   \* State's pending requests: a function token -> session
    nextId,     \* the next fresh token (tokens are allocated, never reused)
    alive,      \* FALSE once a handler has panicked: the context is gone
    call,       \* the last capability call: its name and arguments
    res,        \* what that call returned to the script
    fx,         \* what that call did outside the context (I/O)
    recorded,   \* history: set_error has been called at least once
    issued,     \* history: the request tokens http_request has returned
    consumed    \* history: the request tokens http_send has removed

vars == <<errSlot, sessions, requests, nextId, alive, call, res, fx,
          recorded, issued, consumed>>

-----------------------------------------------------------------------------
(* Bounds of the model. *)

\* Tokens the store may allocate in one run.
MaxIds == 2
\* Longest byte sequence / array given to the marshaller.
MaxLen == 3
\* A Lua number is a double; the model keeps it as a count of 1/FracUnit.
FracUnit == 2
\* rand works on u32; the model keeps the wrap-around at WordBits bits
\* (TLC's integers are 32-bit signed, 2^32 is out of their range).
WordBits == 8

\* The largest value of a byte (the 255.0 of byte_array).
MaxByte == 255

-----------------------------------------------------------------------------
(* hlua's AnyLuaValue. *)

LuaNil == [tag |-> "LuaNil"]
LuaOther == [tag |-> "LuaOther"]
LuaBoolean(b) == [tag |-> "LuaBoolean", bool |-> b]
\* A finite double q/FracUnit, or one of the doubles that is no number.
LuaNumber(q) == [tag |-> "LuaNumber", kind |-> "finite", q |-> q]
LuaNumberSpecial(k) == [tag |-> "LuaNumber", kind |-> k]
\* A text string: a sequence of Unicode code points.
LuaString(text) == [tag |-> "LuaString", text |-> text]
\* An opaque byte string.
LuaAnyString(bytes) == [tag |-> "LuaAnyString", bytes |-> bytes]
\* An array: a sequence of <<key, value>> pairs.
LuaArray(items) == [tag |-> "LuaArray", items |-> items]

\* Result<T>: Ok(value) or Err(error).
Ok(v) == [ok |-> TRUE, val |-> v]
Err(e) == [ok |-> FALSE, err |-> e]

-----------------------------------------------------------------------------
(* The value marshaller. *)

\* String::into_bytes: the UTF-8 encoding of a code point below U+0800.
Utf8(cp) ==
    IF cp < 128 THEN <<cp>>
    ELSE <<192 + (cp \div 64), 128 + (cp % 64)>>

RECURSIVE into_bytes(_)
into_bytes(text) ==
    IF text = <<>> THEN <<>>
    ELSE Utf8(Head(text)) \o into_bytes(Tail(text))

\* The closure of byte_array's map: one array element, a <<key, value>>
\* pair, to one byte.  The first two arms bind the number inside the value
\* and the second formats that number; the last arm binds nothing, so the
\* num it formats is the closure's parameter: the whole pair, key included.
byte_of(item) ==
    LET num == item[2] IN
    IF num.tag = "LuaNumber"
    THEN IF /\ num.kind = "finite"
            /\ num.q <= MaxByte * FracUnit
            /\ num.q >= 0
            /\ num.q % FracUnit = 0
         THEN Ok(num.q \div FracUnit)
         ELSE Err([msg |-> "number is out of range", about |-> num])
    ELSE Err([msg |-> "unexpected type", about |-> item])

\* collect::<Result<_>>: every byte in order, or the first error.
RECURSIVE collect(_)
collect(items) ==
    IF items = <<>> THEN Ok(<<>>)
    ELSE LET b == byte_of(Head(items)) IN
         IF ~b.ok THEN b
         ELSE LET rest == collect(Tail(items)) IN
              IF ~rest.ok THEN rest
              ELSE Ok(<<b.val>> \o rest.val)

\* A plausible slip: elements that are no byte are skipped (filter_map).
RECURSIVE collect_skipping(_)
collect_skipping(items) ==
    IF items = <<>> THEN Ok(<<>>)
    ELSE LET b == byte_of(Head(items))
             rest == collect_skipping(Tail(items)) IN
         IF b.ok THEN Ok(<<b.val>> \o rest.val) ELSE rest

byte_array_skipping(bytes) ==
    CASE bytes.tag = "LuaAnyString" -> Ok(bytes.bytes)
      [] bytes.tag = "LuaString" -> Ok(into_bytes(bytes.text))
      [] bytes.tag = "LuaArray" -> collect_skipping(bytes.items)
      [] OTHER -> Err([msg |-> "invalid type", about |-> bytes])

byte_array(bytes) ==
    CASE bytes.tag = "LuaAnyString" -> Ok(bytes.bytes)
      [] bytes.tag = "LuaString" -> Ok(into_bytes(bytes.text))
      [] bytes.tag = "LuaArray" -> collect(bytes.items)
      [] OTHER -> Err([msg |-> "invalid type", about |-> bytes])

\* A plausible slip: the bytes are handed over as text, lossily.
lua_bytes_as_text(bytes) ==
    LuaString(SelectSeq(bytes, LAMBDA b : b < 128))

lua_bytes(bytes) == LuaAnyString(bytes)


-----------------------------------------------------------------------------
(* The execution context: ctx::State, modelled from the specification. *)

\* Option<T>.
None == <<>>
Some(x) == <<x>>

\* An error of the errors module: its message (the outermost chain_err
\* context).  A conversion error also carries what it formats into the
\* message ("about"): the number, the <<key, value>> pair or the value.
Error(msg) == [msg |-> msg]

\* State::set_error: stores the error and hands it back to the caller.
State_set_error(err) == [slot |-> Some(err), ret |-> err]

\* State::last_error: the stored error, not cleared by the read.
State_last_error == errSlot

\* State::http_mksession: a fresh session under a fresh token.
State_http_mksession ==
    [id |-> nextId, sessions |-> sessions \cup {nextId}, nextId |-> nextId + 1]

\* State::http_request returns a String, not a Result (runtime.rs:173-174):
\* for a session it does not know it has no failure to return and panics.
State_http_request(session, method, url, options) ==
    IF session \in sessions
    THEN [panic |-> FALSE, id |-> nextId, nextId |-> nextId + 1,
          requests |-> [t \in DOMAIN requests \cup {nextId} |->
                          IF t = nextId
                          THEN [session |-> session, method |-> method,
                                url |-> url, options |-> options]
                          ELSE requests[t]]]
    ELSE [panic |-> TRUE]

\* State::http_send: takes the pending request out of the store, then
\* performs the network call, whose answer is net.
State_http_send(request, net) ==
    IF request \in DOMAIN requests
    THEN [requests |-> [t \in DOMAIN requests \ {request} |-> requests[t]],
          sent |-> TRUE,
          result |-> IF net.ok THEN Ok(net.val) ELSE Err(Error("TransportError"))]
    ELSE [requests |-> requests,
          sent |-> FALSE,
          result |-> Err(Error("UnknownRequest"))]

\* The option keys http::RequestOptions knows, as text.
Text_timeout == <<116, 105, 109, 101, 111, 117, 116>>
Text_headers == <<104, 101, 97, 100, 101, 114, 115>>
Text_bogus == <<98, 111, 103, 117, 115>>
RecognizedKeys == {Text_timeout, Text_headers}

\* RequestOptions::try_from: a mapping with recognized keys only.
RequestOptions_try_from(options) ==
    IF /\ options.tag = "LuaArray"
       /\ \A i \in 1..Len(options.items) :
             /\ options.items[i][1].tag = "LuaString"
             /\ options.items[i][1].text \in RecognizedKeys
    THEN Ok(options.items)
    ELSE Err(Error("InvalidOptions"))

-----------------------------------------------------------------------------
(* What a handler leaves behind. *)

\* No I/O: no network call, no process, no LDAP operation.
NoFx == [net |-> FALSE, spawned |-> FALSE, argv |-> <<>>, ldap |-> <<>>]

\* return Err(state.set_error(err))
Failed(err) ==
    /\ errSlot' = State_set_error(err).slot
    /\ recorded' = TRUE
    /\ res' = Err(State_set_error(err).ret)

\* return Ok(value)
Returned(value) ==
    /\ res' = Ok(value)
    /\ UNCHANGED <<errSlot, recorded>>

\* The handler unwinds: nothing is returned and the context is lost.
Panicked == [ok |-> FALSE, panic |-> TRUE]

StoreUnchanged == UNCHANGED <<sessions, requests, nextId, issued, consumed>>

\* format!("{:02x}", b) for every byte, as a sequence of characters.
HexDigits == <<"0", "1", "2", "3", "4", "5", "6", "7",
               "8", "9", "a", "b", "c", "d", "e", "f">>

RECURSIVE HexString(_)
HexString(bytes) ==
    IF bytes = <<>> THEN <<>>
    ELSE <<HexDigits[(Head(bytes) \div 16) + 1], HexDigits[(Head(bytes) % 16) + 1]>>
         \o HexString(Tail(bytes))

\* ldap3::dn_escape, kept symbolic: the escaped form of s.
dn_escape(s) == <<"dn_escape", s>>

-----------------------------------------------------------------------------
(* The capability handlers of runtime.rs.  Each is one action: the whole   *)
(* closure, from the marshalled arguments to the value handed back.        *)

base64_decode(bytes, decoded) ==
    /\ alive
    /\ call' = [name |-> "base64_decode", bytes |-> bytes]
    /\ IF ~decoded.ok THEN Failed(decoded.err)
       ELSE Returned(lua_bytes(decoded.val))
    /\ fx' = NoFx
    /\ StoreUnchanged /\ UNCHANGED alive

base64_encode(bytes, encoded) ==
    /\ alive
    /\ call' = [name |-> "base64_encode", bytes |-> bytes]
    /\ LET b == byte_array(bytes) IN
       IF ~b.ok THEN Failed(b.err)
       ELSE Returned(encoded)
    /\ fx' = NoFx
    /\ StoreUnchanged /\ UNCHANGED alive

\* The arguments execve passes on: the text elements, the others dropped.
execve_args(args) ==
    LET texts == SelectSeq(args, LAMBDA x : x.tag = "LuaString") IN
    [i \in 1..Len(texts) |-> texts[i].text]

\* A plausible slip: a non-zero exit code is reported as a failure.
execve_nonzero_fails(prog, args, status) ==
    /\ alive
    /\ call' = [name |-> "execve", prog |-> prog, args |-> args, status |-> status]
    /\ fx' = [NoFx EXCEPT !.spawned = TRUE, !.argv = execve_args(args)]
    /\ IF status.kind = "spawn_failed"
       THEN Failed(Error("failed to spawn program"))
       ELSE IF status.kind = "signal" \/ status.code # 0
            THEN Failed(Error("process didn't return exit code"))
            ELSE Returned(status.code)
    /\ StoreUnchanged /\ UNCHANGED alive

execve(prog, args, status) ==
    /\ alive
    /\ call' = [name |-> "execve", prog |-> prog, args |-> args, status |-> status]
    /\ fx' = [NoFx EXCEPT !.spawned = TRUE, !.argv = execve_args(args)]
    /\ IF status.kind = "spawn_failed"
       THEN Failed(Error("failed to spawn program"))
       ELSE IF status.kind = "signal"
            THEN Failed(Error("process didn't return exit code"))
            ELSE Returned(status.code)
    /\ StoreUnchanged /\ UNCHANGED alive

\* A plausible slip: a call that succeeds resets the error slot.
hex_clearing(bytes) ==
    /\ alive
    /\ call' = [name |-> "hex", bytes |-> bytes]
    /\ LET b == byte_array(bytes) IN
       IF ~b.ok THEN Failed(b.err)
       ELSE /\ res' = Ok(HexString(b.val))
            /\ errSlot' = None
            /\ UNCHANGED recorded
    /\ fx' = NoFx
    /\ StoreUnchanged /\ UNCHANGED alive

hex(bytes) ==
    /\ alive
    /\ call' = [name |-> "hex", bytes |-> bytes]
    /\ LET b == byte_array(bytes) IN
       IF ~b.ok THEN Failed(b.err)
       ELSE Returned(HexString(b.val))
    /\ fx' = NoFx
    /\ StoreUnchanged /\ UNCHANGED alive

html_select(html, selector, found) ==
    /\ alive
    /\ call' = [name |-> "html_select", html |-> html, selector |-> selector]
    /\ IF found.ok THEN Returned(found.val) ELSE Failed(found.err)
    /\ fx' = NoFx
    /\ StoreUnchanged /\ UNCHANGED alive

html_select_list(html, selector, found) ==
    /\ alive
    /\ call' = [name |-> "html_select_list", html |-> html, selector |-> selector]
    /\ IF found.ok THEN Returned(found.val) ELSE Failed(found.err)
    /\ fx' = NoFx
    /\ StoreUnchanged /\ UNCHANGED alive

http_basic_auth(url, user, password, response) ==
    /\ alive
    /\ call' = [name |-> "http_basic_auth", url |-> url, user |-> user,
                password |-> password]
    /\ fx' = [NoFx EXCEPT !.net = TRUE]
    /\ IF ~response.ok THEN Failed(Error("http request failed"))
       ELSE Returned(~response.www_authenticate /\ response.status # 401)
    /\ StoreUnchanged /\ UNCHANGED alive

http_mksession ==
    /\ alive
    /\ nextId <= MaxIds
    /\ call' = [name |-> "http_mksession"]
    /\ sessions' = State_http_mksession.sessions
    /\ nextId' = State_http_mksession.nextId
    /\ res' = Ok(State_http_mksession.id)
    /\ fx' = NoFx
    /\ UNCHANGED <<errSlot, recorded, requests, issued, consumed, alive>>

http_request(session, method, url, options) ==
    /\ alive
    /\ (RequestOptions_try_from(options).ok /\ session \in sessions)
          => nextId <= MaxIds
    /\ call' = [name |-> "http_request", session |-> session, method |-> method,
                url |-> url, options |-> options]
    /\ fx' = NoFx
    /\ LET parsed == RequestOptions_try_from(options) IN
       IF ~parsed.ok
       THEN /\ Failed(Error("invalid request options"))
            /\ StoreUnchanged /\ UNCHANGED alive
       ELSE LET made == State_http_request(session, method, url, parsed.val) IN
            IF made.panic
            THEN /\ res' = Panicked
                 /\ alive' = FALSE
                 /\ StoreUnchanged /\ UNCHANGED <<errSlot, recorded>>
            ELSE /\ Returned(made.id)
                 /\ requests' = made.requests
                 /\ nextId' = made.nextId
                 /\ issued' = issued \cup {made.id}
                 /\ UNCHANGED <<sessions, consumed, alive>>

\* A plausible slip: the failure is handed back without set_error.
http_send_unrecorded(request, net) ==
    /\ alive
    /\ call' = [name |-> "http_send", request |-> request]
    /\ LET sent == State_http_send(request, net) IN
       /\ requests' = sent.requests
       /\ consumed' = IF sent.sent THEN consumed \cup {request} ELSE consumed
       /\ fx' = [NoFx EXCEPT !.net = sent.sent]
       /\ IF ~sent.result.ok
          THEN res' = Err(sent.result.err) /\ UNCHANGED <<errSlot, recorded>>
          ELSE Returned(sent.result.val)
    /\ UNCHANGED <<sessions, nextId, issued, alive>>

http_send(request, net) ==
    /\ alive
    /\ call' = [name |-> "http_send", request |-> request]
    /\ LET sent == State_http_send(request, net) IN
       /\ requests' = sent.requests
       /\ consumed' = IF sent.sent THEN consumed \cup {request} ELSE consumed
       /\ fx' = [NoFx EXCEPT !.net = sent.sent]
       /\ IF ~sent.result.ok THEN Failed(sent.result.err)
          ELSE Returned(sent.result.val)
    /\ UNCHANGED <<sessions, nextId, issued, alive>>

json_decode(x, decoded) ==
    /\ alive
    /\ call' = [name |-> "json_decode", x |-> x]
    /\ IF decoded.ok THEN Returned(decoded.val) ELSE Failed(decoded.err)
    /\ fx' = NoFx
    /\ StoreUnchanged /\ UNCHANGED alive

json_encode(x, encoded) ==
    /\ alive
    /\ call' = [name |-> "json_encode", x |-> x]
    /\ IF encoded.ok THEN Returned(encoded.val) ELSE Failed(encoded.err)
    /\ fx' = NoFx
    /\ StoreUnchanged /\ UNCHANGED alive

last_err ==
    /\ alive
    /\ call' = [name |-> "last_err"]
    /\ res' = Ok(IF State_last_error = None THEN LuaNil
                 ELSE LuaString(State_last_error[1]))
    /\ fx' = NoFx
    /\ StoreUnchanged /\ UNCHANGED <<errSlot, recorded, alive>>

\* The LDAP operations a handler sends, in the order it sends them.
LdapConnect(url) == [op |-> "connect", url |-> url]
LdapBind(dn, password) == [op |-> "simple_bind", dn |-> dn, password |-> password]
LdapSearch(base, filter) ==
    [op |-> "search", base |-> base, scope |-> "Subtree", filter |-> filter,
     attrs |-> <<"*">>]

ldap_bind(url, dn, password, server) ==
    /\ alive
    /\ call' = [name |-> "ldap_bind", url |-> url, dn |-> dn, password |-> password]
    /\ IF server.conn # "ok"
       THEN /\ Failed(Error("ldap connection failed"))
            /\ fx' = [NoFx EXCEPT !.ldap = <<LdapConnect(url)>>]
       ELSE /\ fx' = [NoFx EXCEPT !.ldap = <<LdapConnect(url), LdapBind(dn, password)>>]
            /\ IF server.bind = "fatal"
               THEN Failed(Error("fatal error during simple_bind"))
               ELSE Returned(server.bind = "success")
    /\ StoreUnchanged /\ UNCHANGED alive

ldap_escape(text) ==
    /\ alive
    /\ call' = [name |-> "ldap_escape", s |-> text]
    /\ Returned(dn_escape(text))
    /\ fx' = NoFx
    /\ StoreUnchanged /\ UNCHANGED alive

\* A plausible slip: with no entry found, the user name itself is tried.
ldap_search_bind_always_binds(url, search_user, search_pw, base_dn, user, password, server) ==
    LET connect == <<LdapConnect(url)>>
        bound == connect \o <<LdapBind(search_user, search_pw)>>
        searched == bound \o <<LdapSearch(base_dn, <<"uid=", dn_escape(user)>>)>>
        dn == IF server.entries = <<>> THEN user ELSE server.entries[1].dn
        login == searched \o <<LdapBind(dn, password)>>
    IN
    /\ alive
    /\ call' = [name |-> "ldap_search_bind", url |-> url, search_user |-> search_user,
                search_pw |-> search_pw, base_dn |-> base_dn, user |-> user,
                password |-> password, server |-> server]
    /\ IF server.conn # "ok"
       THEN Failed(Error("ldap connection failed")) /\ fx' = [NoFx EXCEPT !.ldap = connect]
       ELSE IF server.bind = "fatal"
       THEN /\ Failed(Error("fatal error during simple_bind with search user"))
            /\ fx' = [NoFx EXCEPT !.ldap = bound]
       ELSE IF server.bind # "success"
       THEN /\ res' = Err(Error("login with search user failed"))
            /\ UNCHANGED <<errSlot, recorded>>
            /\ fx' = [NoFx EXCEPT !.ldap = bound]
       ELSE IF server.search = "fatal"
       THEN /\ Failed(Error("fatal error during ldap search"))
            /\ fx' = [NoFx EXCEPT !.ldap = searched]
       ELSE IF server.search # "success"
       THEN /\ Failed(Error("ldap search failed"))
            /\ fx' = [NoFx EXCEPT !.ldap = searched]
       ELSE /\ fx' = [NoFx EXCEPT !.ldap = login]
            /\ IF server.login = "fatal"
               THEN Failed(Error("fatal error during simple_bind"))
               ELSE Returned(server.login = "success")
    /\ StoreUnchanged /\ UNCHANGED alive

ldap_search_bind(url, search_user, search_pw, base_dn, user, password, server) ==
    LET connect == <<LdapConnect(url)>>
        bound == connect \o <<LdapBind(search_user, search_pw)>>
        searched == bound \o <<LdapSearch(base_dn, <<"uid=", dn_escape(user)>>)>>
    IN
    /\ alive
    /\ call' = [name |-> "ldap_search_bind", url |-> url, search_user |-> search_user,
                search_pw |-> search_pw, base_dn |-> base_dn, user |-> user,
                password |-> password, server |-> server]
    /\ IF server.conn # "ok"
       THEN Failed(Error("ldap connection failed")) /\ fx' = [NoFx EXCEPT !.ldap = connect]
       ELSE IF server.bind = "fatal"
       THEN /\ Failed(Error("fatal error during simple_bind with search user"))
            /\ fx' = [NoFx EXCEPT !.ldap = bound]
       ELSE IF server.bind # "success"
       THEN \* return Err("login with search user failed".into()): no set_error
            /\ res' = Err(Error("login with search user failed"))
            /\ UNCHANGED <<errSlot, recorded>>
            /\ fx' = [NoFx EXCEPT !.ldap = bound]
       ELSE IF server.search = "fatal"
       THEN /\ Failed(Error("fatal error during ldap search"))
            /\ fx' = [NoFx EXCEPT !.ldap = searched]
       ELSE IF server.search # "success"
       THEN /\ Failed(Error("ldap search failed"))
            /\ fx' = [NoFx EXCEPT !.ldap = searched]
       ELSE IF server.entries = <<>>
       THEN Returned(FALSE) /\ fx' = [NoFx EXCEPT !.ldap = searched]
       ELSE /\ fx' = [NoFx EXCEPT !.ldap =
                        searched \o <<LdapBind(server.entries[1].dn, password)>>]
            /\ IF server.login = "fatal"
               THEN Failed(Error("fatal error during simple_bind"))
               ELSE Returned(server.login = "success")
    /\ StoreUnchanged /\ UNCHANGED alive

\* The six digest handlers share one body: byte_array, digest, lua_bytes.
digest_handler(name, bytes, digest) ==
    /\ alive
    /\ call' = [name |-> name, bytes |-> bytes]
    /\ LET b == byte_array(bytes) IN
       IF ~b.ok THEN Failed(b.err)
       ELSE Returned(lua_bytes(digest))
    /\ fx' = NoFx
    /\ StoreUnchanged /\ UNCHANGED alive

md5(bytes, digest) == digest_handler("md5", bytes, digest)

\* A plausible slip: a refused connection is reported through set_error.
mysql_connect_recording(host, port, user, password, conn) ==
    /\ alive
    /\ call' = [name |-> "mysql_connect", host |-> host, port |-> port,
                user |-> user, password |-> password, conn |-> conn]
    /\ fx' = [NoFx EXCEPT !.net = TRUE]
    /\ IF conn = "connected" THEN Returned(TRUE)
       ELSE /\ res' = Ok(FALSE)
            /\ errSlot' = State_set_error(Error("mysql connection failed")).slot
            /\ recorded' = TRUE
    /\ StoreUnchanged /\ UNCHANGED alive

mysql_connect(host, port, user, password, conn) ==
    /\ alive
    /\ call' = [name |-> "mysql_connect", host |-> host, port |-> port,
                user |-> user, password |-> password, conn |-> conn]
    /\ fx' = [NoFx EXCEPT !.net = TRUE]
    /\ IF conn = "connected" THEN Returned(TRUE) ELSE Returned(FALSE)
    /\ StoreUnchanged /\ UNCHANGED alive

\* print writes the formatted value to the terminal, which is no part of
\* the context, and hands nothing back.
print(val) ==
    /\ alive
    /\ call' = [name |-> "print", val |-> val]
    /\ Returned(LuaNil)
    /\ fx' = NoFx
    /\ StoreUnchanged /\ UNCHANGED alive

\* The number of u32 values, at the model's width.
WordModulus == 2 ^ WordBits

\* (rng.next_u32() + min) % max.  The sum overflows u32 when it reaches
\* WordModulus: a build with overflow checks panics there, one without
\* wraps around; a max of 0 panics with a division by zero in both.
rand(min, max, next_u32, overflow_checks) ==
    /\ alive
    /\ call' = [name |-> "rand", min |-> min, max |-> max, next_u32 |-> next_u32]
    /\ fx' = NoFx
    /\ IF (next_u32 + min >= WordModulus /\ overflow_checks) \/ max = 0
       THEN /\ res' = Panicked
            /\ alive' = FALSE
            /\ UNCHANGED <<errSlot, recorded>>
       ELSE /\ Returned(((next_u32 + min) % WordModulus) % max)
            /\ UNCHANGED alive
    /\ StoreUnchanged

sha1(bytes, digest) == digest_handler("sha1", bytes, digest)

sha2_256(bytes, digest) == digest_handler("sha2_256", bytes, digest)

sha2_512(bytes, digest) == digest_handler("sha2_512", bytes, digest)

sha3_256(bytes, digest) == digest_handler("sha3_256", bytes, digest)

sha3_512(bytes, digest) == digest_handler("sha3_512", bytes, digest)

sleep(n) ==
    /\ alive
    /\ call' = [name |-> "sleep", n |-> n]
    /\ Returned(0)
    /\ fx' = NoFx
    /\ StoreUnchanged /\ UNCHANGED alive

-----------------------------------------------------------------------------
(* The marshaller on its own: byte_array and lua_bytes applied to a value. *)

\* The conversion has been asked for and not made yet.
Pending == [pending |-> TRUE]

\* byte_array(value), for the value asked for.
marshal_value ==
    /\ res = Pending
    /\ call.name = "byte_array"
    /\ res' = byte_array(call.value)
    /\ UNCHANGED <<errSlot, sessions, requests, nextId, alive, call, fx,
                   recorded, issued, consumed>>

\* byte_array(lua_bytes(bytes)), for the bytes asked for.
marshal_bytes ==
    /\ res = Pending
    /\ call.name = "lua_bytes"
    /\ res' = [lua |-> lua_bytes(call.bytes),
               back |-> byte_array(lua_bytes(call.bytes))]
    /\ UNCHANGED <<errSlot, sessions, requests, nextId, alive, call, fx,
                   recorded, issued, consumed>>

-----------------------------------------------------------------------------
(* The inputs of the model. *)

\* All sequences over S of length at most n.
RECURSIVE SeqsUpTo(_, _)
SeqsUpTo(S, n) ==
    IF n = 0 THEN {<<>>}
    ELSE LET shorter == SeqsUpTo(S, n - 1) IN
         shorter \cup {Append(q, x) : q \in shorter, x \in S}

\* Bytes: the ends of the range, an ASCII letter, and two bytes that are
\* no UTF-8 text on their own.
ByteSamples == {0, 65, 128, MaxByte}
ByteSeqs == SeqsUpTo(ByteSamples, MaxLen)

\* Numbers: bytes, the neighbours of the range, a fraction inside it (one
\* unit above 1.0), and the doubles that are no number.
NumberSamples ==
    {LuaNumber(0), LuaNumber(65 * FracUnit), LuaNumber(MaxByte * FracUnit),
     LuaNumber((MaxByte + 1) * FracUnit), LuaNumber(-FracUnit),
     LuaNumber(FracUnit + 1), LuaNumber(MaxByte * FracUnit + 1),
     LuaNumberSpecial("nan"), LuaNumberSpecial("inf")}

\* What an array may hold besides numbers.
ElementSamples ==
    NumberSamples \cup
    {LuaNil, LuaBoolean(TRUE), LuaString(<<65>>), LuaAnyString(<<65>>),
     LuaArray(<<>>), LuaOther}

\* An array as Lua hands it over: the elements keyed 1, 2, ...
ArrayOf(elements) ==
    LuaArray([i \in 1..Len(elements) |-> <<LuaNumber(i * FracUnit), elements[i]>>])

MarshalValues ==
    {ArrayOf(e) : e \in SeqsUpTo(ElementSamples, MaxLen)}
    \cup {LuaArray(<<<<LuaString(<<65>>), LuaNumber(65 * FracUnit)>>>>)}
    \cup {LuaAnyString(b) : b \in SeqsUpTo({0, MaxByte}, 2)}
    \cup {LuaString(t) : t \in SeqsUpTo({65, 233}, 2)}
    \cup NumberSamples
    \cup {LuaNil, LuaOther, LuaBoolean(TRUE), LuaBoolean(FALSE)}

\* The values the scripts of the model hand to the byte-taking handlers.
HandlerValues ==
    {LuaAnyString(<<0, MaxByte, 16>>),
     ArrayOf(<<LuaNumber(65 * FracUnit), LuaNumber((MaxByte + 1) * FracUnit)>>),
     LuaNil}

Texts == {<<65>>}
Digests == {<<0, MaxByte>>}
Base64Answers == {Ok(<<0, MaxByte>>), Err(Error("invalid base64"))}
HtmlAnswers == {Ok(LuaString(<<65>>)), Err(Error("invalid selector"))}
HtmlListAnswers == {Ok(<<LuaString(<<65>>)>>), Err(Error("invalid selector"))}
JsonDecodeAnswers == {Ok(LuaBoolean(TRUE)), Err(Error("invalid json"))}
JsonEncodeAnswers == {Ok(<<65>>), Err(Error("cannot encode"))}
HttpAuthAnswers ==
    {[ok |-> FALSE]}
    \cup {[ok |-> TRUE, www_authenticate |-> h, status |-> c] :
            h \in BOOLEAN, c \in {200, 401}}
NetAnswers ==
    {Ok([status |-> 200, headers |-> <<>>, body |-> lua_bytes(<<65>>)]),
     [ok |-> FALSE]}
ExecArgs ==
    {<<LuaString(<<65>>), LuaNumber(FracUnit), LuaString(<<66>>)>>,
     <<LuaAnyString(<<65>>)>>}
ExitStatuses ==
    {[kind |-> "spawn_failed"], [kind |-> "signal"]}
    \cup {[kind |-> "exit", code |-> c] : c \in {0, 1}}
BindAnswers == {"success", "rejected", "fatal"}
LdapBindServers == {[conn |-> "refused"]} \cup {[conn |-> "ok", bind |-> b] : b \in BindAnswers}
LdapEntries ==
    {<<>>, <<[dn |-> "uid=bob,dc=x"]>>, <<[dn |-> "uid=bob,dc=x"], [dn |-> "uid=bob,dc=y"]>>}
\* A directory server's answers to ldap_search_bind, as far as it is asked.
LdapSearchServers ==
    {[conn |-> "refused"]}
    \cup {[conn |-> "ok", bind |-> b] : b \in {"rejected", "fatal"}}
    \cup {[conn |-> "ok", bind |-> "success", search |-> s] : s \in {"fatal", "failed"}}
    \cup {[conn |-> "ok", bind |-> "success", search |-> "success", entries |-> <<>>,
           login |-> l] : l \in {"success"}}
    \cup {[conn |-> "ok", bind |-> "success", search |-> "success", entries |-> e,
           login |-> l] : e \in LdapEntries \ {<<>>}, l \in BindAnswers}
MysqlAnswers == {"connected", "refused"}
\* Tokens a script may hold: those the store allocates and one it never does.
Tokens == 0..MaxIds
\* u32 values: small ones and the largest.
RandSamplesSmall == {1, WordModulus - 1}
RandSamples == {0, 1, 2, 5, 10, WordModulus - 2, WordModulus - 1}
RequestOptionSamples ==
    {LuaArray(<<>>),
     LuaArray(<<<<LuaString(Text_timeout), LuaNumber(5 * FracUnit)>>>>),
     LuaArray(<<<<LuaString(Text_bogus), LuaNumber(5 * FracUnit)>>>>),
     LuaNil}

-----------------------------------------------------------------------------
(* The state machine. *)

Init ==
    /\ errSlot = None
    /\ sessions = {}
    /\ requests = <<>>
    /\ nextId = 1
    /\ alive = TRUE
    /\ call = [name |-> "none"]
    /\ res = Ok(LuaNil)
    /\ fx = NoFx
    /\ recorded = FALSE
    /\ issued = {}
    /\ consumed = {}

Next ==
    \/ \E t \in Texts, a \in Base64Answers : base64_decode(t, a)
    \/ \E v \in HandlerValues, t \in Texts : base64_encode(v, t)
    \/ \E a \in ExecArgs, s \in ExitStatuses : execve("prog", a, s)
    \/ \E v \in HandlerValues : hex(v)
    \/ \E a \in HtmlAnswers : html_select("<html>", "a", a)
    \/ \E a \in HtmlListAnswers : html_select_list("<html>", "a", a)
    \/ \E a \in HttpAuthAnswers : http_basic_auth("http://example", "user", "pw", a)
    \/ http_mksession
    \/ \E s \in Tokens, o \in RequestOptionSamples :
          http_request(s, "GET", "http://example", o)
    \/ \E r \in Tokens, a \in NetAnswers : http_send(r, a)
    \/ \E a \in JsonDecodeAnswers : json_decode("{}", a)
    \/ \E a \in JsonEncodeAnswers : json_encode(LuaBoolean(TRUE), a)
    \/ last_err
    \/ \E s \in LdapBindServers : ldap_bind("ldap://example", "uid=bob,dc=x", "pw", s)
    \/ \E t \in Texts : ldap_escape(t)
    \/ \E s \in LdapSearchServers :
          ldap_search_bind("ldap://example", "cn=search", "searchpw", "dc=x", "bob", "pw", s)
    \/ \E v \in HandlerValues, d \in Digests : md5(v, d)
    \/ \E a \in MysqlAnswers : mysql_connect("db", 3306, "root", "pw", a)
    \/ \E v \in {LuaNil} : print(v)
    \/ \E hi \in {0} \cup RandSamplesSmall, r \in RandSamplesSmall, c \in BOOLEAN :
          rand(1, hi, r, c)
    \/ \E v \in HandlerValues, d \in Digests : sha1(v, d)
    \/ \E v \in HandlerValues, d \in Digests : sha2_256(v, d)
    \/ \E v \in HandlerValues, d \in Digests : sha2_512(v, d)
    \/ \E v \in HandlerValues, d \in Digests : sha3_256(v, d)
    \/ \E v \in HandlerValues, d \in Digests : sha3_512(v, d)
    \/ \E n \in {1} : sleep(n)

Spec == Init /\ [][Next]_vars

\* The marshaller applied to every value of MarshalValues and ByteSeqs:
\* the initial state names the conversion, the one step makes it.
InitMarshal ==
    /\ errSlot = None
    /\ sessions = {}
    /\ requests = <<>>
    /\ nextId = 1
    /\ alive = TRUE
    /\ call \in {[name |-> "byte_array", value |-> v] : v \in MarshalValues}
                \cup {[name |-> "lua_bytes", bytes |-> b] : b \in ByteSeqs}
    /\ res = Pending
    /\ fx = NoFx
    /\ recorded = FALSE
    /\ issued = {}
    /\ consumed = {}

NextMarshal ==
    \/ marshal_value
    \/ marshal_bytes

SpecMarshal == InitMarshal /\ [][NextMarshal]_vars

\* rand applied to every triple of RandSamples, in either kind of build.
NextRand ==
    \E lo \in RandSamples, hi \in RandSamples, r \in RandSamples, c \in BOOLEAN :
        rand(lo, hi, r, c)

SpecRand == Init /\ [][NextRand]_vars

-----------------------------------------------------------------------------
(* The claims. *)

\* C1: the error slot only changes when a call fails.  A call that succeeds,
\* a last_err read included, leaves the slot as it was; last_err returns the
\* message in the slot, and nil only if no failure was ever recorded.
ErrorSlotPersists ==
    [][ /\ res'.ok => errSlot' = errSlot
        /\ call'.name = "last_err" =>
              /\ res'.ok
              /\ errSlot # None => res'.val = LuaString(errSlot[1])
              /\ res'.val = LuaNil => ~recorded
      ]_vars

\* C1 is met: a failure was recorded and a later last_err returns it.
ErrorSlotRead ==
    /\ call.name = "last_err"
    /\ recorded
    /\ errSlot # None
    /\ res = Ok(LuaString(errSlot[1]))

\* C2: whenever a handler returns a failure, the error slot holds that
\* failure's message when the handler has returned.
EveryFailureIsRecorded ==
    (~res.ok /\ res # Pending /\ res # Panicked) => errSlot = Some(res.err)

\* C3: http_send on a token that was already sent, or that http_request never
\* returned, fails with UnknownRequest, performs no network call, leaves the
\* store as it is and records the failure in the error slot.
RequestConsumedOnce ==
    [][ (/\ call'.name = "http_send"
         /\ call'.request \in consumed \/ call'.request \notin issued)
        => /\ res' = Err(Error("UnknownRequest"))
           /\ ~fx'.net
           /\ requests' = requests
           /\ errSlot' = Some(Error("UnknownRequest"))
      ]_vars

\* C3 is met: a token that was sent is sent again and is refused.
RequestSentTwice ==
    /\ call.name = "http_send"
    /\ call.request \in consumed
    /\ res = Err(Error("UnknownRequest"))

\* C4: http_request returns a fresh token and stores the request only for a
\* known session and well-formed options; an unknown session fails with
\* UnknownSession, malformed options fail with InvalidOptions, and a failure
\* adds no pending request.
RequestNeedsSession ==
    [][ call'.name = "http_request" =>
          LET known == call'.session \in sessions
              wellformed == RequestOptions_try_from(call'.options).ok
          IN /\ res'.ok <=> (known /\ wellformed)
             /\ res'.ok => /\ res'.val \notin DOMAIN requests
                           /\ res'.val \in DOMAIN requests'
             /\ ~wellformed => res' = Err(Error("invalid request options"))
             /\ (wellformed /\ ~known) => res' = Err(Error("UnknownSession"))
             /\ ~res'.ok => requests' = requests
      ]_vars

\* C5: byte_array(lua_bytes(b)) is Ok(b) for every byte sequence b, and
\* lua_bytes(b) is the opaque-byte-string variant.
BytesRoundTrip ==
    (call.name = "lua_bytes" /\ res # Pending) =>
        /\ res.lua.tag = "LuaAnyString"
        /\ res.back = Ok(call.bytes)

\* C5 is met: bytes that are no UTF-8 text made the round trip.
BytesRoundTripNonText ==
    /\ call.name = "lua_bytes"
    /\ res # Pending
    /\ Len(call.bytes) = 2
    /\ call.bytes[1] = 128 /\ call.bytes[2] = MaxByte
    /\ res.back.ok

\* The value is a number that is whole and in 0..MaxByte.
IsByteNumber(v) ==
    /\ v.tag = "LuaNumber"
    /\ v.kind = "finite"
    /\ \E n \in 0..MaxByte : v.q = n * FracUnit

\* C6: byte_array of an array succeeds exactly when every element is a whole
\* number in 0..MaxByte, and then returns the elements in order; otherwise
\* it fails and returns no bytes.  Nil, a boolean, a number and LuaOther at
\* the top level fail too.
ByteArrayOfArray ==
    (call.name = "byte_array" /\ res # Pending) =>
        LET v == call.value IN
        /\ v.tag = "LuaArray" =>
              LET good == \A i \in 1..Len(v.items) : IsByteNumber(v.items[i][2]) IN
              /\ res.ok <=> good
              /\ good => /\ Len(res.val) = Len(v.items)
                         /\ \A i \in 1..Len(v.items) :
                               res.val[i] * FracUnit = v.items[i][2].q
              /\ ~good => DOMAIN res = {"ok", "err"}
        /\ v.tag \in {"LuaNil", "LuaBoolean", "LuaNumber", "LuaOther"} => ~res.ok

\* C6 is met: an array whose first element is a byte and whose second is not
\* was refused as a whole.
ByteArrayRefusesPartial ==
    /\ call.name = "byte_array"
    /\ res # Pending
    /\ call.value.tag = "LuaArray"
    /\ Len(call.value.items) = 2
    /\ IsByteNumber(call.value.items[1][2])
    /\ ~IsByteNumber(call.value.items[2][2])
    /\ ~res.ok

\* C7: for min < max, rand(min, max) returns r with min <= r < max, whatever
\* the generator draws, and does not panic.
RandInRange ==
    (call.name = "rand" /\ call.min < call.max) =>
        /\ res.ok
        /\ call.min <= res.val
        /\ res.val < call.max

\* C8: mysql_connect always returns a boolean, true exactly when the
\* connection was made, and leaves the error slot as it was.
MysqlConnectIsSilent ==
    [][ call'.name = "mysql_connect" =>
          /\ res' = Ok(call'.conn = "connected")
          /\ errSlot' = errSlot
      ]_vars

\* C8 is met: a connection was refused after another capability had
\* recorded a failure, and that failure is still in the slot.
MysqlRefusedAfterFailure ==
    /\ call.name = "mysql_connect"
    /\ res = Ok(FALSE)
    /\ errSlot # None

\* The text elements of an argument list, in order.
RECURSIVE OnlyTexts(_)
OnlyTexts(args) ==
    IF args = <<>> THEN <<>>
    ELSE IF Head(args).tag = "LuaString"
         THEN <<Head(args).text>> \o OnlyTexts(Tail(args))
         ELSE OnlyTexts(Tail(args))

\* C9: execve returns the exit code of every exit that has one, zero or
\* not, without touching the error slot; it fails, with the failure in the
\* error slot, exactly when the program cannot be spawned or ends without
\* an exit code.  The program gets the text arguments; the others are
\* dropped and fail nothing.
ExecveContract ==
    [][ call'.name = "execve" =>
          LET status == call'.status IN
          /\ fx'.spawned
          /\ fx'.argv = OnlyTexts(call'.args)
          /\ res'.ok <=> status.kind = "exit"
          /\ status.kind = "exit" => /\ res' = Ok(status.code)
                                    /\ errSlot' = errSlot
          /\ status.kind # "exit" => /\ res' # Panicked
                                    /\ errSlot' = Some(res'.err)
      ]_vars

\* C9 is met: a program given a non-text argument exited with a non-zero
\* code after a failure had been recorded.
ExecveNonZeroExit ==
    /\ call.name = "execve"
    /\ call.status.kind = "exit"
    /\ call.status.code # 0
    /\ res = Ok(call.status.code)
    /\ Len(fx.argv) < Len(call.args)
    /\ errSlot # None

\* C10: ldap_search_bind connects, binds as the search user, searches the
\* subtree for uid=<escaped user> and then binds at most once more, as the
\* first entry found.  With no entry found it returns false without that
\* bind; when it returns true the last bind was as the first entry's
\* distinguished name with the password given, and it succeeded.
LdapSearchBindOrder ==
    call.name = "ldap_search_bind" =>
        LET sent == fx.ldap
            server == call.server
            steps == <<LdapConnect(call.url),
                       LdapBind(call.search_user, call.search_pw),
                       LdapSearch(call.base_dn, <<"uid=", dn_escape(call.user)>>)>>
            found == /\ server.conn = "ok"
                     /\ server.bind = "success"
                     /\ server.search = "success"
        IN /\ Len(sent) \in 1..4
           /\ \A i \in 1..Len(sent) : i <= 3 => sent[i] = steps[i]
           /\ Len(sent) = 4 =>
                 /\ found
                 /\ server.entries # <<>>
                 /\ sent[4] = LdapBind(server.entries[1].dn, call.password)
           /\ (found /\ server.entries = <<>>) => (res = Ok(FALSE) /\ Len(sent) = 3)
           /\ res = Ok(TRUE) => (Len(sent) = 4 /\ server.login = "success")

\* C10 is met: the search found no entry and the call returned false.
LdapSearchFoundNothing ==
    /\ call.name = "ldap_search_bind"
    /\ call.server.conn = "ok"
    /\ call.server.bind = "success"
    /\ call.server.search = "success"
    /\ call.server.entries = <<>>
    /\ res = Ok(FALSE)

=============================================================================
